---- MODULE Spec2Model ----
(***************************************************************************)
(* Backend supervision of PhotoSense-AI.  Two host programs are modelled:  *)
(*   "frontend" : src/packaging/frontend/src/main.rs                        *)
(*   "desktop"  : src/apps/desktop/src-tauri/src/main.rs                    *)
(* Every step that touches shared memory (the two atomics, the BackendState *)
(* mutex), the operating system (spawn, kill, connect, HTTP) or the host    *)
(* (emit_all) is one action, so that the threads of the program (main /     *)
(* event loop, readiness poll thread, ctrlc handler thread, output relay    *)
(* task, command thread) interleave as they do in the build.                *)
(***************************************************************************)
EXTENDS Integers, FiniteSets, Sequences, TLC

(* ------------------------------ bounds --------------------------------- *)
\* attempt budget handed to wait_for_backend_sync (MAX_STARTUP_ATTEMPTS is
\* 120 in the source; the loop is checked with a small budget)
MaxAttempts == 2
\* wait_for_backend(max_seconds) of the desktop host (30 in the source)
MaxSeconds == 1
\* process ids the operating system may hand out are 1..MaxPid
MaxPid == 1
\* CloseRequested events delivered to the window handler
MaxClose == 2

(* ------------------------- program constants --------------------------- *)
BACKEND_PORT == 8000

Variants == {"frontend", "desktop"}
Threads == {"main", "sig", "poll", "stat"}
Pids == 1..MaxPid

VARIABLES
  variant,      \* which host program runs
  host,         \* "running" | "exited"
  exitCause,    \* "none" | "exit" | "panic" | "signal"
  BACKEND_PID,  \* static AtomicU32
  CLEANUP_DONE, \* static AtomicBool
  child,        \* BackendState.child : "None" | "Some"
  port,         \* BackendState.port
  started,      \* BackendState.started
  mutex,        \* holder of Mutex<BackendState> : "free" or a thread
  proc,         \* spawned backend: "none"|"starting"|"listening"|"healthy"|"dead"
  procPid,      \* its process id (0 while none)
  ext,          \* foreign owner of the endpoint: "none" | "open" | "healthy"
  pc,           \* control point of every thread
  ctx,          \* what the main thread is cleaning up for: "none"|"close"|"exit"|"panic"
  pidLocal,     \* `let pid` of kill_backend_by_pid, per calling thread
  attempt,      \* loop variable of the readiness loop
  relay,        \* output relay task: "none" | "running" | "done"
  statStarted,  \* `started` as copied out by get_backend_status
  lastStatus,   \* last answer of the status command
  readyCount,   \* emit_all("backend-ready") so far
  failedCount,  \* emit_all("backend-failed") so far
  pidKills,     \* pids the forceful kill was issued with, in order
  handleKills,  \* child.kill() calls so far
  closes,       \* CloseRequested events so far
  stopCalls,    \* completed stop() calls
  stopRan,      \* some stop() has gone through its critical section
  reachableAtStart, \* the endpoint was reachable when start looked at it (or began)
  spawnFailed,  \* the executable was not found or the spawn failed
  probes,       \* port probes made by the readiness loop so far
  healths,      \* health requests made by the readiness loop so far
  fails,        \* attempts of the readiness loop that ended without success
  probeOk,      \* outcome of the loop's latest port probe
  healthAt,     \* attempt in which the loop made its latest health request
  healthOkSeen, \* a health request of this start attempt was answered 200
  statHealth    \* health check made by the last status query: "none"|"ok"|"fail"

vars == <<variant, host, exitCause, BACKEND_PID, CLEANUP_DONE, child, port,
          started, mutex, proc, procPid, ext, pc, ctx, pidLocal, attempt,
          relay, statStarted, lastStatus, readyCount, failedCount, pidKills,
          handleKills, closes, stopCalls, stopRan, reachableAtStart,
          spawnFailed, probes, healths, fails, probeOk, healthAt,
          healthOkSeen, statHealth>>

\* the groups of variables actions leave alone
atomics == <<BACKEND_PID, CLEANUP_DONE>>
bstate == <<child, port, started>>
osvars == <<proc, procPid, ext>>
notes == <<readyCount, failedCount>>
kills == <<pidKills, handleKills>>
stops == <<closes, stopCalls, stopRan>>
hostv == <<variant, host, exitCause, reachableAtStart>>
statv == <<statStarted, lastStatus, statHealth>>
loopv == <<probes, healths, fails, probeOk, healthAt, healthOkSeen>>

(* ------------------------- the endpoint -------------------------------- *)
ProcAlive == proc \in {"starting", "listening", "healthy"}

\* TcpStream::connect_timeout(...).is_ok()
is_port_open == ext # "none" \/ proc \in {"listening", "healthy"}

is_backend_already_running == is_port_open

\* GET /health answers 200
check_backend_health_sync == ext = "healthy" \/ proc = "healthy"

\* desktop host: readiness is the TCP connect alone
is_backend_ready == ext # "none" \/ proc \in {"listening", "healthy"}

Init ==
  /\ variant \in Variants
  /\ host = "running"
  /\ exitCause = "none"
  /\ BACKEND_PID = 0
  /\ CLEANUP_DONE = FALSE
  /\ child = "None"
  /\ port = BACKEND_PORT
  /\ started = FALSE
  /\ mutex = "free"
  /\ proc = "none"
  /\ procPid = 0
  /\ ext \in {"none", "open", "healthy"}
  /\ pc = [t \in Threads |->
             IF t = "main" THEN "start" ELSE IF t = "stat" THEN "idle" ELSE "none"]
  /\ ctx = "none"
  /\ pidLocal = [t \in {"main", "sig"} |-> 0]
  /\ attempt = 0
  /\ relay = "none"
  /\ statStarted = FALSE
  /\ lastStatus = "none"
  /\ readyCount = 0
  /\ failedCount = 0
  /\ pidKills = <<>>
  /\ handleKills = 0
  /\ closes = 0
  /\ stopCalls = 0
  /\ stopRan = FALSE
  /\ reachableAtStart = FALSE
  /\ spawnFailed = FALSE
  /\ probes = 0
  /\ healths = 0
  /\ fails = 0
  /\ probeOk = FALSE
  /\ healthAt = 0
  /\ healthOkSeen = FALSE
  /\ statHealth = "none"

Running == host = "running"
Frontend == variant = "frontend"
Desktop == variant = "desktop"

Goto(t, l) == pc' = [pc EXCEPT ![t] = l]

(* ---------------- frontend: spawn_backend and setup -------------------- *)
\* spawn_backend, line 119: the duplicate-instance probe
SpawnProbe ==
  /\ Running /\ Frontend /\ pc["main"] = "start"
  /\ IF is_backend_already_running
       THEN Goto("main", "err_probe")
       ELSE Goto("main", "sidecar")
  /\ reachableAtStart' = is_port_open
  /\ UNCHANGED <<loopv, variant, host, exitCause, atomics, bstate, mutex, osvars,
                 ctx, pidLocal, attempt, relay, statv, notes, kills, stops,
                 spawnFailed>>

\* lines 130-133, Ok: the operating system created the process
SidecarOk ==
  /\ Running /\ Frontend /\ pc["main"] = "sidecar"
  /\ \E p \in Pids : procPid' = p
  /\ proc' = "starting"
  /\ Goto("main", "store_pid")
  /\ UNCHANGED <<loopv, hostv, atomics, bstate, mutex, ext, ctx, pidLocal, attempt,
                 relay, statv, notes, kills, stops, spawnFailed>>

\* the error of new_sidecar/spawn swallowed: setup goes on as if spawned
SidecarErr_Ignored ==
  /\ Running /\ Frontend /\ pc["main"] = "sidecar"
  /\ spawnFailed' = TRUE
  /\ Goto("main", "store_pid")
  /\ UNCHANGED <<loopv, hostv, atomics, bstate, mutex, osvars, ctx, pidLocal, attempt,
                 relay, statv, notes, kills, stops>>

\* lines 130-133, Err: new_sidecar or spawn failed, `?` returns the error
SidecarErr ==
  /\ Running /\ Frontend /\ pc["main"] = "sidecar"
  /\ spawnFailed' = TRUE
  /\ Goto("main", "err_probe")
  /\ UNCHANGED <<loopv, hostv, atomics, bstate, mutex, osvars, ctx, pidLocal, attempt,
                 relay, statv, notes, kills, stops>>

\* lines 136-137: BACKEND_PID.store(pid)
StorePid ==
  /\ Running /\ Frontend /\ pc["main"] = "store_pid"
  /\ BACKEND_PID' = procPid
  /\ Goto("main", "relay_spawn")
  /\ UNCHANGED <<loopv, hostv, CLEANUP_DONE, bstate, mutex, osvars, ctx, pidLocal,
                 attempt, relay, statv, notes, kills, stops, spawnFailed>>

\* lines 141-172: the output relay task is started, Ok((child, port)) returned
RelaySpawn ==
  /\ Running /\ Frontend /\ pc["main"] = "relay_spawn"
  /\ relay' = "running"
  /\ Goto("main", "setup_lock")
  /\ UNCHANGED <<loopv, hostv, atomics, bstate, mutex, osvars, ctx, pidLocal, attempt,
                 statv, notes, kills, stops, spawnFailed>>

\* line 251: state.lock()
SetupLock ==
  /\ Running /\ Frontend /\ pc["main"] = "setup_lock"
  /\ mutex = "free"
  /\ mutex' = "main"
  /\ Goto("main", "setup_store")
  /\ UNCHANGED <<loopv, hostv, atomics, bstate, osvars, ctx, pidLocal, attempt, relay,
                 statv, notes, kills, stops, spawnFailed>>

\* lines 252-254: the handle and the port are stored, the guard is dropped
SetupStore ==
  /\ Running /\ Frontend /\ pc["main"] = "setup_store"
  /\ mutex = "main"
  /\ child' = "Some"
  /\ port' = BACKEND_PORT
  /\ mutex' = "free"
  /\ Goto("main", "poll_spawn")
  /\ UNCHANGED <<loopv, hostv, atomics, started, osvars, ctx, pidLocal, attempt, relay,
                 statv, notes, kills, stops, spawnFailed>>

\* line 259: thread::spawn of the readiness poll; setup returns Ok(())
PollSpawn ==
  /\ Running /\ Frontend /\ pc["main"] = "poll_spawn"
  /\ attempt' = 1
  /\ pc' = [pc EXCEPT !["main"] = "loop", !["poll"] = "probe"]
  /\ UNCHANGED <<loopv, hostv, atomics, bstate, mutex, osvars, ctx, pidLocal, relay,
                 statv, notes, kills, stops, spawnFailed>>

\* line 279: the Err branch probes the endpoint again
ErrProbe ==
  /\ Running /\ Frontend /\ pc["main"] = "err_probe"
  /\ IF is_backend_already_running
       THEN Goto("main", "attach_lock")
       ELSE Goto("main", "loop")
  /\ UNCHANGED <<loopv, hostv, atomics, bstate, mutex, osvars, ctx, pidLocal, attempt,
                 relay, statv, notes, kills, stops, spawnFailed>>

\* line 282
AttachLock ==
  /\ Running /\ Frontend /\ pc["main"] = "attach_lock"
  /\ mutex = "free"
  /\ mutex' = "main"
  /\ Goto("main", "attach_set")
  /\ UNCHANGED <<loopv, hostv, atomics, bstate, osvars, ctx, pidLocal, attempt, relay,
                 statv, notes, kills, stops, spawnFailed>>

\* lines 283-284
AttachSet ==
  /\ Running /\ Frontend /\ pc["main"] = "attach_set"
  /\ mutex = "main"
  /\ started' = TRUE
  /\ mutex' = "free"
  /\ Goto("main", "attach_emit")
  /\ UNCHANGED <<loopv, hostv, atomics, child, port, osvars, ctx, pidLocal, attempt,
                 relay, statv, notes, kills, stops, spawnFailed>>

\* line 285
AttachEmit ==
  /\ Running /\ Frontend /\ pc["main"] = "attach_emit"
  /\ readyCount' = readyCount + 1
  /\ Goto("main", "loop")
  /\ UNCHANGED <<loopv, hostv, atomics, bstate, mutex, osvars, ctx, pidLocal, attempt,
                 relay, statv, failedCount, kills, stops, spawnFailed>>

(* --------------- frontend: the readiness poll thread ------------------- *)
\* the range test off by one: one attempt more than the budget
MoreAttempts_OneMore(a, max) == a <= max

\* `for attempt in 1..=max_attempts` (line 97; desktop line 44): after
\* attempt a, is there another one
MoreAttempts(a, max) == a < max

\* the health request issued whatever the probe said
AfterProbe_Always(ok) == "health"

\* `if is_port_open(port)` (line 99): the health check only behind an open
\* port, otherwise on to the sleep
AfterProbe(ok) == IF ok THEN "health" ELSE "sleep"

\* a failed health check reported to the host at once
AfterHealth_GiveUp(ok) == IF ok THEN "p_lock" ELSE "emit_failed"

\* `if check_backend_health_sync(port) { return true; }` (lines 101-104): a
\* failed check falls through to the sleep and the next attempt
AfterHealth(ok) == IF ok THEN "p_lock" ELSE "sleep"

\* wait_for_backend_sync, line 99
PollProbe ==
  /\ Running /\ Frontend /\ pc["poll"] = "probe"
  /\ probes' = probes + 1
  /\ probeOk' = is_port_open
  /\ Goto("poll", AfterProbe(is_port_open))
  /\ fails' = IF is_port_open THEN fails ELSE fails + 1
  /\ UNCHANGED <<hostv, atomics, bstate, mutex, osvars, ctx, pidLocal, attempt,
                 relay, statv, notes, kills, stops, spawnFailed, healths,
                 healthAt, healthOkSeen>>

\* the health check marking the backend started by itself, without the lock
PollHealth_SetsStarted ==
  /\ Running /\ Frontend /\ pc["poll"] = "health"
  /\ healths' = healths + 1
  /\ healthAt' = attempt
  /\ Goto("poll", AfterHealth(check_backend_health_sync))
  /\ healthOkSeen' = (healthOkSeen \/ check_backend_health_sync)
  /\ fails' = IF check_backend_health_sync THEN fails ELSE fails + 1
  /\ started' = (started \/ check_backend_health_sync)
  /\ UNCHANGED <<hostv, atomics, child, port, mutex, osvars, ctx, pidLocal,
                 attempt, relay, statv, notes, kills, stops, spawnFailed,
                 probes, probeOk>>

\* line 101; on success the loop returns true
PollHealth ==
  /\ Running /\ Frontend /\ pc["poll"] = "health"
  /\ healths' = healths + 1
  /\ healthAt' = attempt
  /\ Goto("poll", AfterHealth(check_backend_health_sync))
  /\ healthOkSeen' = (healthOkSeen \/ check_backend_health_sync)
  /\ fails' = IF check_backend_health_sync THEN fails ELSE fails + 1
  /\ UNCHANGED <<hostv, atomics, bstate, mutex, osvars, ctx, pidLocal, attempt,
                 relay, statv, notes, kills, stops, spawnFailed, probes,
                 probeOk>>

\* lines 97, 111-113: sleep, then the next attempt or `false`
PollSleep ==
  /\ Running /\ Frontend /\ pc["poll"] = "sleep"
  /\ IF MoreAttempts(attempt, MaxAttempts)
       THEN /\ attempt' = attempt + 1
            /\ Goto("poll", "probe")
       ELSE /\ attempt' = attempt
            /\ Goto("poll", "emit_failed")
  /\ UNCHANGED <<loopv, hostv, atomics, bstate, mutex, osvars, ctx, pidLocal,
                 relay, statv, notes, kills, stops, spawnFailed>>

\* line 265
PollLock ==
  /\ Running /\ Frontend /\ pc["poll"] = "p_lock"
  /\ mutex = "free"
  /\ mutex' = "poll"
  /\ Goto("poll", "p_set")
  /\ UNCHANGED <<loopv, hostv, atomics, bstate, osvars, ctx, pidLocal, attempt, relay,
                 statv, notes, kills, stops, spawnFailed>>

\* lines 266-267
PollSetStarted ==
  /\ Running /\ Frontend /\ pc["poll"] = "p_set"
  /\ mutex = "poll"
  /\ started' = TRUE
  /\ mutex' = "free"
  /\ Goto("poll", "emit_ready")
  /\ UNCHANGED <<loopv, hostv, atomics, child, port, osvars, ctx, pidLocal, attempt,
                 relay, statv, notes, kills, stops, spawnFailed>>

\* line 270
PollEmitReady ==
  /\ Running /\ Frontend /\ pc["poll"] = "emit_ready"
  /\ readyCount' = readyCount + 1
  /\ Goto("poll", "done")
  /\ UNCHANGED <<loopv, hostv, atomics, bstate, mutex, osvars, ctx, pidLocal, attempt,
                 relay, statv, failedCount, kills, stops, spawnFailed>>

\* the timeout branch killing the child it gave up on
PollEmitFailed_Kills ==
  /\ Running /\ Frontend /\ pc["poll"] = "emit_failed"
  /\ failedCount' = failedCount + 1
  /\ child' = "None"
  /\ handleKills' = handleKills + 1
  /\ proc' = IF ProcAlive THEN "dead" ELSE proc
  /\ Goto("poll", "done")
  /\ UNCHANGED <<loopv, hostv, atomics, port, started, mutex, procPid, ext, ctx,
                 pidLocal, attempt, relay, statv, readyCount, pidKills, stops,
                 spawnFailed>>

\* lines 272-273
PollEmitFailed ==
  /\ Running /\ Frontend /\ pc["poll"] = "emit_failed"
  /\ failedCount' = failedCount + 1
  /\ Goto("poll", "done")
  /\ UNCHANGED <<loopv, hostv, atomics, bstate, mutex, osvars, ctx, pidLocal, attempt,
                 relay, statv, readyCount, kills, stops, spawnFailed>>

(* ------------------ frontend: the output relay task -------------------- *)
\* lines 162-166: CommandEvent::Terminated is delivered once the child exited
RelayTerminated ==
  /\ Running /\ Frontend /\ relay = "running"
  /\ proc = "dead"
  /\ BACKEND_PID' = 0
  /\ relay' = "done"
  /\ UNCHANGED <<loopv, hostv, CLEANUP_DONE, bstate, mutex, osvars, pc, ctx, pidLocal,
                 attempt, statv, notes, kills, stops, spawnFailed>>

(* --------------- frontend: kill_backend_by_pid (lines 36-67) ----------- *)
Callers == {"main", "sig"}

\* the one-shot test dropped: every caller goes on to the body
SwapWasDone_NoGuard == FALSE

\* what CLEANUP_DONE.swap(true) hands back (line 38)
SwapWasDone == CLEANUP_DONE

\* the pid loaded a second time for the kill instead of the local copy
KillArg_Reloaded(t) == BACKEND_PID

\* the pid handed to kill: `pid`, read once at line 42 (lines 62, 64)
KillArg(t) == pidLocal[t]

\* SIGKILL to the group and to the process (lines 62-64)
KillEffect(p) ==
  proc' = IF ProcAlive /\ procPid = p THEN "dead" ELSE proc

\* the routine returns to its caller: the close handler goes back to the
\* event loop, RunEvent::Exit and the panic hook end the host, the ctrlc
\* handler goes on to std::process::exit(0)
KbpReturn(t) ==
  IF t = "sig"
    THEN /\ Goto("sig", "exit")
         /\ UNCHANGED <<ctx, host, exitCause, stopCalls>>
    ELSE /\ Goto("main", IF ctx = "close" THEN "loop" ELSE "gone")
         /\ ctx' = "none"
         /\ host' = IF ctx = "close" THEN host ELSE "exited"
         /\ exitCause' = IF ctx = "close" THEN exitCause ELSE ctx
         /\ stopCalls' = IF ctx = "panic" THEN stopCalls ELSE stopCalls + 1

\* line 38: the one-shot test-and-set
KbpSwap(t) ==
  /\ Running /\ Frontend /\ pc[t] = "k_swap"
  /\ CLEANUP_DONE' = TRUE
  /\ IF SwapWasDone
       THEN KbpReturn(t)
       ELSE /\ Goto(t, "k_load")
            /\ UNCHANGED <<ctx, host, exitCause, stopCalls>>
  /\ UNCHANGED <<loopv, variant, reachableAtStart, BACKEND_PID, bstate, mutex, osvars,
                 pidLocal, attempt, relay, statv, notes, kills, closes, stopRan,
                 spawnFailed>>

\* the routine reading the pid only once the BackendState mutex is free
KbpLoad_Locked(t) ==
  /\ Running /\ Frontend /\ pc[t] = "k_load"
  /\ mutex = "free"
  /\ pidLocal' = [pidLocal EXCEPT ![t] = BACKEND_PID]
  /\ IF BACKEND_PID = 0
       THEN KbpReturn(t)
       ELSE /\ Goto(t, "k_kill")
            /\ UNCHANGED <<ctx, host, exitCause, stopCalls>>
  /\ UNCHANGED <<loopv, variant, reachableAtStart, atomics, bstate, mutex, osvars,
                 attempt, relay, statv, notes, kills, closes, stopRan,
                 spawnFailed>>

\* lines 42-45: the pid is read once; 0 means nothing to kill
KbpLoad(t) ==
  /\ Running /\ Frontend /\ pc[t] = "k_load"
  /\ pidLocal' = [pidLocal EXCEPT ![t] = BACKEND_PID]
  /\ IF BACKEND_PID = 0
       THEN KbpReturn(t)
       ELSE /\ Goto(t, "k_kill")
            /\ UNCHANGED <<ctx, host, exitCause, stopCalls>>
  /\ UNCHANGED <<loopv, variant, reachableAtStart, atomics, bstate, mutex, osvars,
                 attempt, relay, statv, notes, kills, closes, stopRan,
                 spawnFailed>>

\* lines 47-66: the body that issues the kill
KbpKill(t) ==
  /\ Running /\ Frontend /\ pc[t] = "k_kill"
  /\ pidKills' = Append(pidKills, KillArg(t))
  /\ KillEffect(KillArg(t))
  /\ KbpReturn(t)
  /\ UNCHANGED <<loopv, variant, reachableAtStart, atomics, bstate, mutex, procPid, ext,
                 pidLocal, attempt, relay, statv, notes, handleKills, closes,
                 stopRan, spawnFailed>>

(* ---------------- frontend: cleanup_backend (lines 202-214) ------------ *)
\* the handle only borrowed (as_ref) instead of taken
ChildAfterTake_Kept == child

\* what Option::take leaves in BackendState.child (line 205; desktop 222)
ChildAfterTake == "None"

\* line 204
CleanupLock ==
  /\ Running /\ Frontend /\ pc["main"] = "cb_lock"
  /\ mutex = "free"
  /\ mutex' = "main"
  /\ Goto("main", "cb_take")
  /\ UNCHANGED <<loopv, hostv, atomics, bstate, osvars, ctx, pidLocal, attempt, relay,
                 statv, notes, kills, stops, spawnFailed>>

\* lines 205-210: take the handle; kill through it; started = false
CleanupTake ==
  /\ Running /\ Frontend /\ pc["main"] = "cb_take"
  /\ mutex = "main"
  /\ IF child = "Some"
       THEN /\ child' = ChildAfterTake
            /\ handleKills' = handleKills + 1
            /\ proc' = IF ProcAlive THEN "dead" ELSE proc
            /\ started' = FALSE
       ELSE UNCHANGED <<child, handleKills, proc, started>>
  /\ mutex' = "free"
  /\ stopRan' = TRUE
  /\ Goto("main", "k_swap")
  /\ UNCHANGED <<loopv, hostv, atomics, port, procPid, ext, ctx, pidLocal, attempt,
                 relay, statv, notes, pidKills, closes, stopCalls, spawnFailed>>

(* ------------------- frontend: the exit triggers ----------------------- *)
\* lines 295-301: WindowEvent::CloseRequested
CloseRequested ==
  /\ Running /\ Frontend /\ pc["main"] = "loop"
  /\ closes < MaxClose
  /\ closes' = closes + 1
  /\ ctx' = "close"
  /\ Goto("main", "cb_lock")
  /\ UNCHANGED <<loopv, hostv, atomics, bstate, mutex, osvars, pidLocal, attempt,
                 relay, statv, notes, kills, stopCalls, stopRan, spawnFailed>>

\* lines 313-318: RunEvent::Exit
RunExit ==
  /\ Running /\ Frontend /\ pc["main"] = "loop"
  /\ ctx' = "exit"
  /\ Goto("main", "cb_lock")
  /\ UNCHANGED <<loopv, hostv, atomics, bstate, mutex, osvars, pidLocal, attempt,
                 relay, statv, notes, kills, stops, spawnFailed>>

\* lines 219-223: the panic hook runs on the panicking thread, here the main
\* thread inside the event loop; unwinding then ends the host
PanicHook ==
  /\ Running /\ Frontend /\ pc["main"] = "loop"
  /\ ctx' = "panic"
  /\ Goto("main", "k_swap")
  /\ UNCHANGED <<loopv, hostv, atomics, bstate, mutex, osvars, pidLocal, attempt,
                 relay, statv, notes, kills, stops, spawnFailed>>

\* lines 229-233: SIGINT/SIGTERM/SIGHUP wakes the ctrlc handler thread
SignalArrives ==
  /\ Running /\ Frontend /\ pc["sig"] = "none"
  /\ Goto("sig", "k_swap")
  /\ UNCHANGED <<loopv, hostv, atomics, bstate, mutex, osvars, ctx, pidLocal, attempt,
                 relay, statv, notes, kills, stops, spawnFailed>>

\* line 232: std::process::exit(0)
SignalExit ==
  /\ Running /\ Frontend /\ pc["sig"] = "exit"
  /\ host' = "exited"
  /\ exitCause' = "signal"
  /\ Goto("sig", "gone")
  /\ UNCHANGED <<loopv, variant, reachableAtStart, atomics, bstate, mutex, osvars, ctx,
                 pidLocal, attempt, relay, statv, notes, kills, stops,
                 spawnFailed>>

(* ---------------- frontend: get_backend_status (177-192) --------------- *)
SetupPcs == {"start", "sidecar", "store_pid", "relay_spawn", "setup_lock",
             "setup_store", "poll_spawn", "err_probe", "attach_lock",
             "attach_set", "attach_emit", "d_lock", "d_store", "d_wait",
             "d_sleep"}

\* lines 178-185: (port, started) copied under the lock; the command is
\* served once setup has returned, on a thread of its own
StatusRead ==
  /\ Running /\ Frontend /\ pc["stat"] = "idle"
  /\ pc["main"] \notin SetupPcs
  /\ mutex = "free"
  /\ statStarted' = started
  /\ IF started
       THEN /\ Goto("stat", "s_health")
            /\ UNCHANGED <<lastStatus, statHealth>>
       ELSE /\ lastStatus' = "NotStarted"
            /\ statHealth' = "none"
            /\ UNCHANGED pc
  /\ UNCHANGED <<loopv, hostv, atomics, bstate, mutex, osvars, ctx, pidLocal,
                 attempt, relay, notes, kills, stops, spawnFailed>>

\* the stored flag reported without looking at the health result
StatusAnswer_Stale(ok) == "Running"

\* lines 187-191: the answer for a started backend
StatusAnswer(ok) == IF ok THEN "Running" ELSE "NotResponding"

\* lines 187-191
StatusHealth ==
  /\ Running /\ Frontend /\ pc["stat"] = "s_health"
  /\ statHealth' = IF check_backend_health_sync THEN "ok" ELSE "fail"
  /\ lastStatus' = StatusAnswer(check_backend_health_sync)
  /\ Goto("stat", "idle")
  /\ UNCHANGED <<loopv, hostv, atomics, bstate, mutex, osvars, ctx, pidLocal,
                 attempt, relay, statStarted, notes, kills, stops, spawnFailed>>

(* ------------------------- the desktop host ---------------------------- *)
\* start_backend, lines 81-165, Err: resource not resolved, file missing,
\* log file not opened, or spawn refused; setup logs it (lines 204-212)
DStartErr ==
  /\ Running /\ Desktop /\ pc["main"] = "start"
  /\ spawnFailed' = TRUE
  /\ Goto("main", "loop")
  /\ reachableAtStart' = is_port_open
  /\ UNCHANGED <<loopv, variant, host, exitCause, atomics, bstate, mutex, osvars,
                 ctx, pidLocal, attempt, relay, statv, notes, kills, stops>>

\* start_backend, lines 151-174, Ok(child): no probe of the endpoint first
DStartOk ==
  /\ Running /\ Desktop /\ pc["main"] = "start"
  /\ \E p \in Pids : procPid' = p
  /\ proc' = "starting"
  /\ Goto("main", "d_lock")
  /\ reachableAtStart' = is_port_open
  /\ UNCHANGED <<loopv, variant, host, exitCause, atomics, bstate, mutex, ext, ctx,
                 pidLocal, attempt, relay, statv, notes, kills, stops,
                 spawnFailed>>

\* line 193: state.lock().unwrap()
DLock ==
  /\ Running /\ Desktop /\ pc["main"] = "d_lock"
  /\ mutex = "free"
  /\ mutex' = "main"
  /\ Goto("main", "d_store")
  /\ UNCHANGED <<loopv, hostv, atomics, bstate, osvars, ctx, pidLocal, attempt, relay,
                 statv, notes, kills, stops, spawnFailed>>

\* line 193: .child = Some(child); the temporary guard is dropped
DStore ==
  /\ Running /\ Desktop /\ pc["main"] = "d_store"
  /\ mutex = "main"
  /\ child' = "Some"
  /\ mutex' = "free"
  /\ attempt' = 1
  /\ Goto("main", "d_wait")
  /\ UNCHANGED <<loopv, hostv, atomics, port, started, osvars, ctx, pidLocal, relay,
                 statv, notes, kills, stops, spawnFailed>>

\* wait_for_backend, lines 45-48, called from setup on the main thread
DWaitProbe ==
  /\ Running /\ Desktop /\ pc["main"] = "d_wait"
  /\ probes' = probes + 1
  /\ probeOk' = is_backend_ready
  /\ IF is_backend_ready
       THEN /\ Goto("main", "loop")
            /\ UNCHANGED fails
       ELSE /\ Goto("main", "d_sleep")
            /\ fails' = fails + 1
  /\ UNCHANGED <<hostv, atomics, bstate, mutex, osvars, ctx, pidLocal, attempt,
                 relay, statv, notes, kills, stops, spawnFailed, healths,
                 healthAt, healthOkSeen>>

\* lines 44, 52-54
DWaitSleep ==
  /\ Running /\ Desktop /\ pc["main"] = "d_sleep"
  /\ IF MoreAttempts(attempt, MaxSeconds * 2)
       THEN /\ attempt' = attempt + 1
            /\ Goto("main", "d_wait")
       ELSE /\ attempt' = attempt
            /\ Goto("main", "loop")
  /\ UNCHANGED <<loopv, hostv, atomics, bstate, mutex, osvars, ctx, pidLocal,
                 relay, statv, notes, kills, stops, spawnFailed>>

\* lines 216-221: CloseRequested, the handler locks the state
DClose ==
  /\ Running /\ Desktop /\ pc["main"] = "loop"
  /\ closes < MaxClose
  /\ mutex = "free"
  /\ closes' = closes + 1
  /\ mutex' = "main"
  /\ Goto("main", "d_take")
  /\ UNCHANGED <<loopv, hostv, atomics, bstate, osvars, ctx, pidLocal, attempt, relay,
                 statv, notes, kills, stopCalls, stopRan, spawnFailed>>

\* lines 220-224: child.take(), guard dropped; None ends the handler
DCloseTake ==
  /\ Running /\ Desktop /\ pc["main"] = "d_take"
  /\ mutex = "main"
  /\ child' = ChildAfterTake
  /\ mutex' = "free"
  /\ stopRan' = TRUE
  /\ IF child = "Some"
       THEN /\ Goto("main", "d_kill")
            /\ UNCHANGED stopCalls
       ELSE /\ Goto("main", "loop")
            /\ stopCalls' = stopCalls + 1
  /\ UNCHANGED <<loopv, hostv, atomics, port, started, osvars, ctx, pidLocal, attempt,
                 relay, statv, notes, kills, closes, spawnFailed>>

\* lines 224-227: child.kill()
DCloseKill ==
  /\ Running /\ Desktop /\ pc["main"] = "d_kill"
  /\ handleKills' = handleKills + 1
  /\ proc' = IF ProcAlive THEN "dead" ELSE proc
  /\ stopCalls' = stopCalls + 1
  /\ Goto("main", "loop")
  /\ UNCHANGED <<loopv, hostv, atomics, bstate, mutex, procPid, ext, ctx, pidLocal,
                 attempt, relay, statv, notes, pidKills, closes, stopRan,
                 spawnFailed>>

\* line 231: run() returns once the window has closed
DRunExit ==
  /\ Running /\ Desktop /\ pc["main"] = "loop"
  /\ closes > 0
  /\ host' = "exited"
  /\ exitCause' = "exit"
  /\ Goto("main", "gone")
  /\ UNCHANGED <<loopv, variant, reachableAtStart, atomics, bstate, mutex, osvars, ctx,
                 pidLocal, attempt, relay, statv, notes, kills, stops,
                 spawnFailed>>

\* no panic hook and no signal handler are installed (lines 182-233): a
\* panic on the main thread or a termination signal ends the host at once
DAbort ==
  /\ Running /\ Desktop
  /\ host' = "exited"
  /\ \E c \in {"panic", "signal"} : exitCause' = c
  /\ UNCHANGED <<loopv, variant, reachableAtStart, atomics, bstate, mutex, osvars, pc,
                 ctx, pidLocal, attempt, relay, statv, notes, kills, stops,
                 spawnFailed>>

\* lines 177-180: check_backend_status
DStatus ==
  /\ Running /\ Desktop /\ pc["main"] = "loop"
  /\ lastStatus' = IF is_backend_ready THEN "Running" ELSE "NotResponding"
  /\ UNCHANGED <<loopv, hostv, atomics, bstate, mutex, osvars, pc, ctx, pidLocal,
                 attempt, relay, statStarted, statHealth, notes, kills, stops,
                 spawnFailed>>

(* --------------------------- environment ------------------------------- *)
\* the spawned backend binds the port, unless a foreign process holds it
ProcListen ==
  /\ Running /\ proc = "starting" /\ ext = "none"
  /\ proc' = "listening"
  /\ UNCHANGED <<loopv, hostv, atomics, bstate, mutex, procPid, ext, pc, ctx, pidLocal,
                 attempt, relay, statv, notes, kills, stops, spawnFailed>>

\* its /health route starts to answer 200
ProcHealthy ==
  /\ Running /\ proc = "listening"
  /\ proc' = "healthy"
  /\ UNCHANGED <<loopv, hostv, atomics, bstate, mutex, procPid, ext, pc, ctx, pidLocal,
                 attempt, relay, statv, notes, kills, stops, spawnFailed>>

\* it exits on its own
ProcExit ==
  /\ Running /\ ProcAlive
  /\ proc' = "dead"
  /\ UNCHANGED <<loopv, hostv, atomics, bstate, mutex, procPid, ext, pc, ctx, pidLocal,
                 attempt, relay, statv, notes, kills, stops, spawnFailed>>

\* a foreign process takes, changes or gives up the endpoint
ExtChange ==
  /\ Running
  /\ \E e \in {"none", "open", "healthy"} :
       /\ e # ext
       /\ ext = "none" => proc \notin {"listening", "healthy"}
       /\ ext' = e
  /\ UNCHANGED <<loopv, hostv, atomics, bstate, mutex, proc, procPid, pc, ctx, pidLocal,
                 attempt, relay, statv, notes, kills, stops, spawnFailed>>

(* ------------------------- the specification --------------------------- *)
Next ==
  \/ SpawnProbe \/ SidecarOk \/ SidecarErr \/ StorePid \/ RelaySpawn
  \/ SetupLock \/ SetupStore \/ PollSpawn
  \/ ErrProbe \/ AttachLock \/ AttachSet \/ AttachEmit
  \/ PollProbe \/ PollHealth \/ PollSleep \/ PollLock \/ PollSetStarted
  \/ PollEmitReady \/ PollEmitFailed
  \/ RelayTerminated
  \/ \E t \in Callers : KbpSwap(t) \/ KbpLoad(t) \/ KbpKill(t)
  \/ CleanupLock \/ CleanupTake
  \/ CloseRequested \/ RunExit \/ PanicHook \/ SignalArrives \/ SignalExit
  \/ StatusRead \/ StatusHealth
  \/ DStartErr \/ DStartOk \/ DLock \/ DStore \/ DWaitProbe \/ DWaitSleep
  \/ DClose \/ DCloseTake \/ DCloseKill \/ DRunExit \/ DAbort \/ DStatus
  \/ ProcListen \/ ProcHealthy \/ ProcExit \/ ExtChange

Spec == Init /\ [][Next]_vars

(* ============================== claims ================================= *)

\* C1: under every exit path of the host, a backend the supervisor spawned
\* and that is still alive has been issued a kill before the host ends: no
\* state has the host exited and the spawned backend still running.
\* (stated for the host that installs the panic hook and the signal handler)
C1_NoOrphanAfterExit == (Frontend /\ host = "exited") => ~ProcAlive

\* C2: once the host has ended through a cleanup trigger with a backend pid
\* recorded, the body of kill_backend_by_pid has run exactly once (and never
\* more than once).
C2_ExactlyOnce ==
  (Frontend /\ host = "exited" /\ BACKEND_PID # 0) => Len(pidKills) = 1

\* the half of C2 the one-shot flag does give: at most one caller is ever
\* past the test, the body issues at most one kill, the flag is never reset
KillBodyAtMostOnce ==
  /\ [](Cardinality({t \in Callers : pc[t] \in {"k_load", "k_kill"}})
          + Len(pidKills) <= 1)
  /\ [][CLEANUP_DONE => CLEANUP_DONE']_vars

\* C3: while a supervisor-spawned backend is alive and its termination has
\* not been observed by the relay, BACKEND_PID holds its process id.
C3_PidRecordedWithSpawn ==
  (Frontend /\ ProcAlive /\ relay # "done") => BACKEND_PID = procPid

\* a step of the main thread inside stop(): cleanup_backend called for a
\* close request or for RunEvent::Exit, or the desktop close handler
StopStep ==
  /\ pc'["main"] # pc["main"]
  /\ \/ pc["main"] \in {"cb_lock", "cb_take", "d_take", "d_kill"}
     \/ pc["main"] \in {"k_swap", "k_load", "k_kill"} /\ ctx \in {"close", "exit"}

\* C4: stop() is idempotent: once one call has completed, every step of a
\* later call finds the handle absent and changes none of the handle, the
\* started flag, CLEANUP_DONE, the kills issued and the backend process.
C4_StopIdempotent ==
  [][(stopCalls >= 1 /\ StopStep) =>
       /\ child = "None"
       /\ <<child, started, CLEANUP_DONE, handleKills, pidKills, proc>>'
            = <<child, started, CLEANUP_DONE, handleKills, pidKills, proc>>]_vars

\* a second stop() has completed after a first one killed through the handle
C4_Witness ==
  /\ Frontend /\ stopCalls >= 2
  /\ handleKills = 1 /\ child = "None" /\ CLEANUP_DONE

\* C5: if the endpoint is reachable when start is invoked, no process is
\* spawned, no pid and no handle are recorded, and every later status()
\* answers "running", on every start path and whatever the endpoint does
\* after the first probe.
C5_AttachNoSpawn ==
  reachableAtStart =>
    /\ proc = "none" /\ BACKEND_PID = 0 /\ child = "None"
    /\ lastStatus # "none" => lastStatus = "Running"

\* (the same for the host that probes before it spawns)
C5_AttachFrontend == Frontend => C5_AttachNoSpawn

\* the start attempt is over: setup has returned and no poll thread is left
StartSettled ==
  /\ Frontend
  /\ pc["main"] \notin SetupPcs
  /\ pc["poll"] \in {"none", "done"}

\* C6: every start attempt delivers exactly one notification, backend-ready
\* or backend-failed and never both, a start aborted by a missing executable
\* or a failed spawn included.
C6_OneNotification ==
  /\ Frontend => readyCount + failedCount <= 1
  /\ StartSettled => readyCount + failedCount = 1

\* C7: if the executable cannot be located or the spawn fails, the lifecycle
\* never enters Starting: no process, no handle, no recorded pid, no
\* readiness poll (thread or loop) and no output relay.
C7_SpawnErrorNeverStarting ==
  spawnFailed =>
    /\ proc = "none" /\ child = "None" /\ BACKEND_PID = 0
    /\ pc["poll"] = "none" /\ attempt = 0 /\ relay = "none"
    /\ pc["main"] \notin {"store_pid", "relay_spawn", "setup_lock", "setup_store",
                          "poll_spawn", "d_lock", "d_store", "d_wait", "d_sleep"}

\* the spawn failed, setup returned, and the host asked for the status
C7_Witness ==
  /\ Frontend /\ spawnFailed /\ pc["main"] = "loop"
  /\ lastStatus = "NotStarted"

\* the readiness loop returned false (lines 271-273)
PollExhausted == pc["poll"] = "emit_failed" \/ failedCount > 0

\* LifecycleState of the specification, read off the frontend's state
Lifecycle ==
  IF stopRan THEN "Stopped"
  ELSE IF started THEN "Ready"
  ELSE IF PollExhausted THEN "Failed"
  ELSE IF proc # "none" THEN "Starting"
  ELSE "NotStarted"

C9_NoReadyAfterStopOrFailed ==
  [][(Frontend /\ (stopRan \/ PollExhausted)) =>
       /\ started' => started
       /\ readyCount' = readyCount]_vars

\* C10: once stop() has run, the readiness loop starts no further attempt.
C10_StopCancelsPoll ==
  [][(Frontend /\ stopRan) => attempt' = attempt]_vars

\* C11: after stop() has gone through its critical section the state is
\* Stopped: the handle is absent and the started flag is false, whether the
\* backend was spawned by the supervisor or attached to.
C11_StoppedAfterStop ==
  (Frontend /\ stopRan) => (child = "None" /\ ~started)

\* the attempt budget of the host's readiness loop
Budget == IF Frontend THEN MaxAttempts ELSE MaxSeconds * 2

\* the readiness loop has returned true / false
LoopSucceeded ==
  \/ Frontend /\ ( \/ pc["poll"] \in {"p_lock", "p_set", "emit_ready"}
                   \/ pc["poll"] = "done" /\ failedCount = 0 )
  \/ Desktop /\ pc["main"] \in {"loop", "d_take", "d_kill", "gone"}
             /\ attempt >= 1 /\ probeOk
LoopFailed ==
  \/ Frontend /\ PollExhausted
  \/ Desktop /\ pc["main"] \in {"loop", "d_take", "d_kill", "gone"}
             /\ attempt >= 1 /\ ~probeOk

\* C12: the readiness loop never makes more probe attempts than its budget
\* (max_attempts; max_seconds * 2 in the desktop host); it returns true on
\* the first attempt that sees the backend ready, all earlier attempts having
\* failed, and returns false only after the last attempt of the budget failed.
C12_LoopBounded ==
  /\ attempt <= Budget /\ probes <= attempt /\ healths <= probes
  /\ LoopSucceeded => (probes = attempt /\ fails = attempt - 1)
  /\ LoopFailed => (probes = Budget /\ fails = Budget)

\* the loop used up the whole budget and returned false
C12_Witness ==
  /\ Frontend /\ pc["poll"] = "done" /\ failedCount = 1
  /\ probes = MaxAttempts /\ fails = MaxAttempts

\* C13: when the first k attempts of the poll fail (k below the budget) and
\* attempt k+1 succeeds, the poll thread sets started on that attempt and
\* emits backend-ready once; while the loop is still trying, and after it has
\* succeeded, no failure notification has been emitted.
C13_ReadyOnFirstSuccess ==
  /\ [](Frontend =>
         /\ pc["poll"] \in {"probe", "health", "sleep"} =>
              (failedCount = 0 /\ readyCount = 0 /\ fails >= attempt - 1)
         /\ pc["poll"] \in {"p_lock", "p_set", "emit_ready"} =>
              /\ fails = attempt - 1 /\ healthAt = attempt
              /\ failedCount = 0 /\ readyCount = 0
         /\ (pc["poll"] = "done" /\ fails < MaxAttempts) =>
              (fails = attempt - 1 /\ readyCount = 1 /\ failedCount = 0))
  /\ [][(Frontend /\ pc["poll"] = "p_set" /\ pc'["poll"] # "p_set")
          => (started' /\ pc'["poll"] = "emit_ready")]_vars

\* the health check of the first attempt failed, the second attempt succeeded
\* and backend-ready went out
C13_Witness ==
  /\ Frontend /\ pc["poll"] = "done" /\ fails >= 1 /\ attempt = fails + 1
  /\ healths >= 2 /\ readyCount = 1 /\ failedCount = 0

\* C14: get_backend_status answers Running only when the started flag it
\* read under the lock was true and the health check of that same query
\* succeeded; with started read true and the health check failing (the
\* backend died after becoming ready) it answers NotResponding; with started
\* read false it answers NotStarted without a health check.
C14_StatusRechecksHealth ==
  /\ [](Frontend =>
         /\ pc["stat"] = "idle" =>
              /\ lastStatus = "Running" => (statStarted /\ statHealth = "ok")
              /\ lastStatus = "NotResponding" =>
                   (statStarted /\ statHealth = "fail")
              /\ lastStatus = "NotStarted" =>
                   (~statStarted /\ statHealth = "none")
         /\ pc["stat"] = "s_health" => statStarted)
  /\ [][Frontend =>
         /\ (pc["stat"] = "s_health" /\ pc'["stat"] = "idle") =>
              lastStatus' = IF check_backend_health_sync
                              THEN "Running" ELSE "NotResponding"
         /\ (pc["stat"] = "idle" /\ pc'["stat"] = "s_health") => started
         /\ (pc["stat"] = "idle" /\ lastStatus' # lastStatus) =>
              (~started /\ lastStatus' = "NotStarted" /\ pc'["stat"] = "idle")]_vars

\* the spawned backend became ready and died; the query answers NotResponding
C14_Witness ==
  /\ Frontend /\ readyCount = 1 /\ proc = "dead" /\ ext = "none"
  /\ statStarted /\ lastStatus = "NotResponding"

\* C15: the supervisor is Ready (started set, backend-ready emitted) only
\* after a health check of this start has succeeded, on the spawn path and
\* on the attach path alike.
C15_ReadyOnlyAfterHealth ==
  (Frontend /\ (started \/ readyCount > 0)) => healthOkSeen

\* the step on which the readiness loop gives up, and the report of it
TimeoutStep ==
  \/ Frontend /\ pc["poll"] = "sleep" /\ pc'["poll"] = "emit_failed"
  \/ Frontend /\ pc["poll"] = "emit_failed" /\ pc'["poll"] = "done"
  \/ Desktop /\ pc["main"] = "d_sleep" /\ pc'["main"] = "loop"

\* C16: the step that exhausts the readiness attempts, and the report of the
\* failure, issue no kill and leave the stored handle, BACKEND_PID and
\* CLEANUP_DONE and the backend process as they are; the handle is still
\* stored until a stop() takes it, and a stop() after the timeout kills the
\* backend through it.
C16_TimeoutLeavesBackend ==
  /\ [][TimeoutStep =>
          UNCHANGED <<child, BACKEND_PID, CLEANUP_DONE, pidKills, handleKills,
                      proc, started>>]_vars
  /\ []((LoopFailed /\ ~stopRan) => child = "Some")
  /\ []((LoopFailed /\ stopRan /\ pc["main"] \in {"loop", "gone"}) =>
          (child = "None" /\ handleKills = 1 /\ ~ProcAlive))

\* the poll timed out with the backend still alive, and a later stop()
\* killed it through the handle
C16_Witness ==
  /\ Frontend /\ failedCount = 1 /\ stopRan /\ pc["main"] = "loop"
  /\ handleKills = 1 /\ proc = "dead"

\* C17: the one-shot flag CLEANUP_DONE is set only by a cleanup that finds a
\* non-zero BACKEND_PID; a trigger that runs while the pid is 0 leaves the
\* flag clear.
C17_FlagOnlyWithPid ==
  [][(Frontend /\ ~CLEANUP_DONE /\ CLEANUP_DONE') => BACKEND_PID # 0]_vars

\* a call of is_port_open / is_backend_ready or of check_backend_health_sync
ProbeOrHealthStep ==
  \/ probes' # probes
  \/ healths' # healths
  \/ pc["stat"] = "s_health" /\ pc'["stat"] = "idle"
  \/ pc["main"] \in {"start", "err_probe"} /\ pc'["main"] # pc["main"]

\* C18: every step that changes BackendState (child, port, started) is taken
\* by the thread that holds the BackendState mutex, one holder at a time; the
\* status query copies the state only while no writer holds the mutex; the
\* port probe and the health check change nothing of BackendState.
C18_WritesUnderMutex ==
  /\ [][(bstate' # bstate) =>
          (mutex \in Threads /\ pc'[mutex] # pc[mutex])]_vars
  /\ [][(statStarted' # statStarted \/
          (pc["stat"] = "idle" /\ pc'["stat"] # "idle")) =>
          (mutex = "free" /\ statStarted' = started)]_vars
  /\ [][ProbeOrHealthStep => UNCHANGED bstate]_vars
  /\ [](mutex \in Threads \cup {"free"})

\* the poll thread set started under the lock with the handle stored, and a
\* status query copied it
C18_Witness ==
  /\ Frontend /\ child = "Some" /\ started /\ readyCount = 1
  /\ statStarted /\ lastStatus = "Running" /\ mutex = "free"

\* C19: in every attempt of wait_for_backend_sync the port probe comes first
\* and the health request is issued only after that attempt's probe
\* succeeded; an attempt whose probe fails issues no health request, and no
\* attempt issues more than one.
C19_ProbeThenHealth ==
  /\ [][(Frontend /\ healths' # healths) =>
          /\ healths' = healths + 1
          /\ pc["poll"] = "health" /\ probeOk /\ probes = attempt
          /\ healthAt < attempt /\ healthAt' = attempt]_vars
  /\ [][(Frontend /\ probes' # probes) =>
          (probes' = probes + 1 /\ probes' = attempt /\ healthAt < attempt)]_vars
  /\ []((Frontend /\ pc["poll"] = "sleep" /\ ~probeOk) => healthAt < attempt)
  /\ [](Frontend => healths <= probes)

\* the probe of the first attempt failed and no health request was made in
\* it; the second attempt probed, then made its one health request
C19_Witness ==
  /\ Frontend /\ attempt = 2 /\ probes = 2 /\ healths = 1 /\ healthAt = 2
  /\ fails >= 1

\* C20: kill_backend_by_pid never issues the kill with pid 0: the value it
\* kills is the one it loaded from BACKEND_PID, tested non-zero, whatever the
\* spawn's store and the relay's reset to 0 do in between.
C20_NoKillOfPidZero ==
  /\ \A i \in 1..Len(pidKills) : pidKills[i] # 0
  /\ \A t \in Callers : pc[t] = "k_kill" => pidLocal[t] # 0

\* a caller has loaded the non-zero pid and is about to kill with it, and the
\* relay has reset BACKEND_PID to 0 in between
C20_Witness ==
  /\ Frontend /\ relay = "done" /\ BACKEND_PID = 0
  /\ \E t \in Callers : pc[t] = "k_kill" /\ pidLocal[t] = procPid

\* C21: once the output relay has processed the Terminated event,
\* BACKEND_PID is 0 and no kill by pid is issued any more: the pid of the
\* exited backend is never signalled after its termination was observed.
C21_NoKillAfterTerminated ==
  /\ [](relay = "done" => BACKEND_PID = 0)
  /\ [][relay = "done" => pidKills' = pidKills]_vars

\* a step of thread t of the host
ThreadStep(t) == Next /\ pc'[t] # pc[t]

\* where a thread has nothing to do: the event loop, no signal yet, the poll
\* thread not spawned or finished, no status query, the thread ended
RestPcs == {"loop", "none", "done", "idle", "gone"}

\* thread t is inside the out-of-band cleanup: the ctrlc handler thread, or
\* the main thread running the panic hook
OutOfBand(t) ==
  /\ pc[t] \in {"k_swap", "k_load", "k_kill", "exit"}
  /\ t = "sig" \/ (t = "main" /\ ctx = "panic")

\* C22: the panic hook and the signal handler work on the two atomics only:
\* their steps neither take nor change the BackendState mutex and are never
\* blocked, whoever holds it; and no interleaving deadlocks: a thread that
\* cannot step is waiting for the mutex, whose holder can step and release it.
C22_NoDeadlock ==
  /\ [][(\E t \in Callers : OutOfBand(t) /\ pc'[t] # pc[t])
          => UNCHANGED <<mutex, bstate>>]_vars
  /\ [](\A t \in Callers : (Running /\ OutOfBand(t)) => ENABLED ThreadStep(t))
  /\ [](\A t \in Threads :
          (Running /\ pc[t] \notin RestPcs /\ ~ENABLED ThreadStep(t)) =>
            /\ mutex \in Threads \ {t}
            /\ ENABLED (ThreadStep(mutex) /\ mutex' = "free"))

\* the poll thread holds the mutex, stop() on the main thread waits for it,
\* and the signal handler is past its load of the pid, about to kill
C22_Witness ==
  /\ Frontend /\ mutex = "poll" /\ pc["main"] = "cb_lock"
  /\ pc["sig"] = "k_kill" /\ ~ENABLED ThreadStep("main")

\* C23: whenever backend-ready is emitted the started flag is true, on the
\* poll path and on the attach path, so a status query made in response does
\* not answer 'Backend not started'.
C23_ReadyImpliesStarted ==
  [][(Frontend /\ readyCount' # readyCount) => (started /\ started')]_vars

====
